---- MODULE Spec2Model ----
(***************************************************************************)
(* contextlib-rs: the Context protocol (enter/exit), the `with` helper and *)
(* the ExitStack aggregate of src/lib.rs (duplicated in src/util.rs).      *)
(*                                                                         *)
(* A resource is an Rc allocation.  Its strong count is the number of      *)
(* handles the caller holds plus the number of handles stored in           *)
(* ExitStacks (plus the temporaries of the running method).  Rc::get_mut   *)
(* yields the resource only when that count is 1; `.unwrap()` on None      *)
(* panics, and a panic ends the run.  What a resource's enter and exit     *)
(* return is up to the resource: it is drawn when the call is made.        *)
(***************************************************************************)
EXTENDS Integers, Sequences, FiniteSets, TLC

\* ------------------------------------------------------------------ bounds
MaxRes     == 2   \* resources (Rc allocations) created in one run
MaxHandles == 2   \* handles to one resource (the caller's and the stacks')
MaxLen     == 2   \* members one ExitStack holds at a time
MaxExits   == 2   \* exit invocations on one resource before unwinding is cut off
MaxWith    == 3   \* runs of with(..) on one context
MaxItems   == 3   \* values the Iterator under an IterContext can produce
MaxPulls   == 3   \* calls of next() on one IterContext
MaxVal     == 3   \* largest value a block stores in Temp's val
MaxNew     == 2   \* SwitchDir objects constructed in one run

Res      == 1..MaxRes
\* the ExitStack the caller made and the one pop_all returns
StackIds == {"stack", "newstack"}

\* ------------------------------------------------------ outcomes (lib.rs:40)
Kinds == {"EnterError", "IterEnterError", "Other"}
Msgs  == {"m1", "m2"}
Ok    == [ok |-> TRUE, kind |-> "", msg |-> ""]
Err(k, m) == [ok |-> FALSE, kind |-> k, msg |-> m]
Outcomes == {Ok} \cup {Err(k, m) : k \in Kinds, m \in Msgs}
\* the outcomes the aggregate is driven with: success and one failure
StackOutcomes == {Ok, Err("Other", "m1")}
\* what the enter of a resource handed to enter_context returns
EnterOutcomes == {Ok, Err("EnterError", "m1")}

VARIABLES
    stacks,     \* stacks[s]: the Vec<Rc<Context>> of ExitStack s (resource ids)
    alive,      \* the ExitStack objects that exist
    created,    \* number of resources created so far (ids 1..created)
    held,       \* held[r]: handles to r the caller holds
    enterCount, \* enterCount[r]: invocations of r.enter
    exitCount,  \* exitCount[r]: invocations of r.exit
    panicked,   \* a panic has ended the run
    last,       \* the last ExitStack operation: arguments, result, exits it ran
    wpc,        \* with(context, block): where the current run is
    wenter,     \* what context.enter() returned in the current run
    wblock,     \* what the block returned in the current run
    wtrace,     \* the calls the current run has made, in order
    wret,       \* what with returned
    wcount,     \* over all runs on this context: calls of with, enter, exit
    itImpl,     \* IterContext: the file whose trait the object implements
    itItems,    \* IterContext: what the object's Iterator has yet to produce
    itPulls,    \* IterContext: calls of self.next() so far
    itLast,     \* IterContext: the last call of enter or exit and its result
    temp,       \* test simple: the Temp object, fields orig and val
    tseen,      \* test simple: the values of t.val the block has found
    cwd,        \* the process's current directory
    sd,         \* the SwitchDir object: its kind and its two paths
    dlast,      \* the last SwitchDir operation and its result
    dobs        \* directories found: at construction, at with, in the block

stackVars == <<stacks, alive, created, held, enterCount, exitCount, panicked, last>>
withVars  == <<wpc, wenter, wblock, wtrace, wret, wcount>>
iterVars  == <<itImpl, itItems, itPulls, itLast>>
\* the state of the Context implementations
simpleVars == <<temp, tseen>>
dirVars   == <<cwd, sd, dlast, dobs>>
ctxVars   == <<iterVars, simpleVars, dirVars>>
vars      == <<stackVars, withVars, ctxVars>>

\* op: the method; s: the stack; res: the handle passed or returned;
\* err: the outcome passed; enter: what res.enter() returns when called;
\* returned: the method returned (it did not panic); retb / reto: its result;
\* index: where remove found the handle (0: nowhere); exits: the members whose
\* exit it invoked, in order; args: the outcome each was given; flags: what
\* each returned (kept by exit, dropped by close)
NoOp == [op |-> "none", s |-> "stack", res |-> 0, err |-> Ok, enter |-> Ok,
         returned |-> TRUE, retb |-> FALSE, reto |-> Ok, index |-> 0,
         exits |-> <<>>, args |-> <<>>, flags |-> <<>>]

\* IterContext: op: "new", "enter" or "exit"; some: whether next() produced
\* a value; result: what enter returned; err: the outcome passed to exit;
\* returned: the call returned (FALSE: it panicked); retb: what exit returned
ItNone == [op |-> "none", some |-> FALSE, result |-> Ok, err |-> Ok,
           returned |-> TRUE, retb |-> FALSE]

\* test simple: Temp::new()
Temp_new == [orig |-> 0, val |-> 0]

\* the directories that exist: A, its subdirectory sub, and B elsewhere
Dirs == {"A", "A/sub", "B"}
\* no SwitchDir object; kind: "util" for util::SwitchDir, "drop" for
\* droputil::SwitchDir; enters, exits: calls of the object's enter and exit;
\* made: objects constructed so far
SdNone == [kind |-> "none", new_dir |-> "A", original_dir |-> "A",
           enters |-> 0, exits |-> 0, made |-> 0]
\* op: the operation; kind: of the object it was applied to; ok: it returned
\* success; panicked: it did not return; isdir: the path given to new was a
\* directory; os: every system call of the operation succeeded; from: the
\* current directory before the operation; enters, exits: the object's
\* counts after the operation
DNone == [op |-> "none", kind |-> "none", ok |-> TRUE, panicked |-> FALSE,
          isdir |-> TRUE, os |-> TRUE, from |-> "A", enters |-> 0, exits |-> 0]

\* ------------------------------------------------------------ Rc helpers
Count(seq, x) == Len(SelectSeq(seq, LAMBDA y : y = x))

\* Rc::strong_count: the caller's handles plus those stored in ExitStacks
strong_count(r) ==
    held[r] + Count(stacks["stack"], r) + Count(stacks["newstack"], r)

\* Rc::get_mut(..) is Some exactly when the handle is the only one
Rc_get_mut(count) == count = 1

\* ---------------------------------------------------------------- Init
Init ==
    /\ stacks = [s \in StackIds |-> <<>>]
    /\ alive = {"stack"}
    /\ created = 0
    /\ held = [r \in Res |-> 0]
    /\ enterCount = [r \in Res |-> 0]
    /\ exitCount = [r \in Res |-> 0]
    /\ panicked = FALSE
    /\ last = NoOp
    /\ wpc = "idle"
    /\ wenter = Ok
    /\ wblock = Ok
    /\ wtrace = <<>>
    /\ wret = Ok
    /\ wcount = [with |-> 0, enter |-> 0, entered |-> 0, exit |-> 0]
    /\ itImpl = "lib"
    /\ itItems = <<>>
    /\ itPulls = 0
    /\ itLast = ItNone
    /\ temp = Temp_new
    /\ tseen = <<>>
    /\ cwd = "A"
    /\ sd = SdNone
    /\ dlast = DNone
    /\ dobs = [home |-> "A", start |-> "A", seen |-> "A"]

\* ------------------------------------------------- the caller's handles
\* Rc::new(ctx): a new resource, one handle with the caller
rc_new ==
    /\ ~panicked
    /\ created < MaxRes
    /\ created' = created + 1
    /\ held' = [held EXCEPT ![created + 1] = 1]
    /\ last' = NoOp
    /\ UNCHANGED <<stacks, alive, enterCount, exitCount, panicked, withVars, ctxVars>>

\* handle.clone()
rc_clone(r) ==
    /\ ~panicked
    /\ held[r] >= 1
    /\ strong_count(r) < MaxHandles
    /\ held' = [held EXCEPT ![r] = @ + 1]
    /\ last' = NoOp
    /\ UNCHANGED <<stacks, alive, created, enterCount, exitCount, panicked, withVars, ctxVars>>

\* drop(handle)
rc_drop(r) ==
    /\ ~panicked
    /\ held[r] >= 1
    /\ held' = [held EXCEPT ![r] = @ - 1]
    /\ last' = NoOp
    /\ UNCHANGED <<stacks, alive, created, enterCount, exitCount, panicked, withVars, ctxVars>>

\* ------------------------------------------------------------ ExitStack
\* mutant: `self.stack.insert(0, c)`, the handle goes to the front
push_front(s, r) ==
    /\ ~panicked
    /\ s \in alive
    /\ held[r] >= 1
    /\ Len(stacks[s]) < MaxLen
    /\ stacks' = [stacks EXCEPT ![s] = <<r>> \o @]
    /\ held' = [held EXCEPT ![r] = @ - 1]
    /\ last' = [NoOp EXCEPT !.op = "push", !.s = s, !.res = r]
    /\ UNCHANGED <<alive, created, enterCount, exitCount, panicked, withVars, ctxVars>>

\* ExitStack::push(c): the handle moves from the caller into the Vec
push(s, r) ==
    /\ ~panicked
    /\ s \in alive
    /\ held[r] >= 1
    /\ Len(stacks[s]) < MaxLen
    /\ stacks' = [stacks EXCEPT ![s] = Append(@, r)]
    /\ held' = [held EXCEPT ![r] = @ - 1]
    /\ last' = [NoOp EXCEPT !.op = "push", !.s = s, !.res = r]
    /\ UNCHANGED <<alive, created, enterCount, exitCount, panicked, withVars, ctxVars>>

\* ExitStack::enter_context(c), for a resource whose enter() returns e:
\* ref_ctx = c.clone() is a second handle beside c, so get_mut sees the
\* caller's handles (c among them), the stacks' handles and ref_ctx
enter_context(s, r, e) ==
    /\ ~panicked
    /\ s \in alive
    /\ held[r] >= 1
    /\ Len(stacks[s]) < MaxLen
    /\ IF ~Rc_get_mut(strong_count(r) + 1)
       THEN \* .unwrap() on None
            /\ panicked' = TRUE
            /\ last' = [NoOp EXCEPT !.op = "enter_context", !.s = s, !.res = r,
                                    !.enter = e, !.returned = FALSE]
            /\ UNCHANGED <<stacks, enterCount>>
       ELSE /\ enterCount' = [enterCount EXCEPT ![r] = @ + 1]
            /\ stacks' = [stacks EXCEPT ![s] = IF e.ok THEN Append(@, r) ELSE @]
            /\ last' = [NoOp EXCEPT !.op = "enter_context", !.s = s, !.res = r,
                                    !.enter = e, !.reto = e]
            /\ UNCHANGED panicked
    /\ held' = [held EXCEPT ![r] = @ - 1]
    /\ UNCHANGED <<alive, created, exitCount, withVars, ctxVars>>

\* the loop of ExitStack::remove: index of the first handle ptr_eq to c, or 0
RECURSIVE find_index(_, _, _)
find_index(vec, c, i) ==
    IF i > Len(vec) THEN 0
    ELSE IF vec[i] = c THEN i
    ELSE find_index(vec, c, i + 1)

\* mutant: Vec::pop() in place of Vec::remove(i)
vec_remove_pop(vec, i) == SubSeq(vec, 1, Len(vec) - 1)

\* Vec::remove(i)
vec_remove(vec, i) == SubSeq(vec, 1, i - 1) \o SubSeq(vec, i + 1, Len(vec))

\* ExitStack::remove(c): c is passed by value and dropped on return
remove(s, r) ==
    /\ ~panicked
    /\ s \in alive
    /\ held[r] >= 1
    /\ LET index == find_index(stacks[s], r, 1) IN
        stacks' = [stacks EXCEPT ![s] =
                     IF index # 0 THEN vec_remove(@, index) ELSE @]
    /\ held' = [held EXCEPT ![r] = @ - 1]
    /\ last' = [NoOp EXCEPT !.op = "remove", !.s = s, !.res = r,
                            !.index = find_index(stacks[s], r, 1)]
    /\ UNCHANGED <<alive, created, enterCount, exitCount, panicked, withVars, ctxVars>>

\* ExitStack::callback(f): a new ExitCallback, one handle pushed, one returned
callback(s) ==
    /\ ~panicked
    /\ s \in alive
    /\ created < MaxRes
    /\ Len(stacks[s]) < MaxLen
    /\ created' = created + 1
    /\ stacks' = [stacks EXCEPT ![s] = Append(@, created + 1)]
    /\ held' = [held EXCEPT ![created + 1] = 1]
    /\ last' = [NoOp EXCEPT !.op = "callback", !.s = s, !.res = created + 1]
    /\ UNCHANGED <<alive, enterCount, exitCount, panicked, withVars, ctxVars>>

\* mutant: the new ExitStack gets a clone of the Vec, the original keeps it
pop_all_clone(s) ==
    /\ ~panicked
    /\ s \in alive
    /\ StackIds \ alive # {}
    /\ LET t == CHOOSE x \in StackIds \ alive : TRUE IN
        /\ stacks' = [stacks EXCEPT ![t] = stacks[s]]
        /\ alive' = alive \cup {t}
    /\ last' = [NoOp EXCEPT !.op = "pop_all", !.s = s]
    /\ UNCHANGED <<created, held, enterCount, exitCount, panicked, withVars, ctxVars>>

\* ExitStack::pop_all(): mem::swap with the Vec of a new ExitStack
pop_all(s) ==
    /\ ~panicked
    /\ s \in alive
    /\ StackIds \ alive # {}
    /\ LET t == CHOOSE x \in StackIds \ alive : TRUE IN
        /\ stacks' = [stacks EXCEPT ![t] = stacks[s], ![s] = stacks[t]]
        /\ alive' = alive \cup {t}
    /\ last' = [NoOp EXCEPT !.op = "pop_all", !.s = s]
    /\ UNCHANGED <<created, held, enterCount, exitCount, panicked, withVars, ctxVars>>

\* the ExitStack pop_all returned goes out of scope: its handles are
\* dropped, no exit runs
drop_stack(s) ==
    /\ ~panicked
    /\ s \in alive
    /\ s # "stack"
    /\ stacks' = [stacks EXCEPT ![s] = <<>>]
    /\ alive' = alive \ {s}
    /\ last' = [NoOp EXCEPT !.op = "drop_stack", !.s = s]
    /\ UNCHANGED <<created, held, enterCount, exitCount, panicked, withVars, ctxVars>>

\* mutant: the loop breaks as soon as a member has handled the error
RECURSIVE rollback_short_circuit(_, _, _, _, _)
rollback_short_circuit(vec, i, err, ret, acc) ==
    IF i = 0 \/ acc.handled_error THEN acc
    ELSE IF ~Rc_get_mut(strong_count(vec[i]))
         THEN [acc EXCEPT !.panic = TRUE]
         ELSE rollback_short_circuit(vec, i - 1, err, ret,
                [exits |-> Append(acc.exits, vec[i]),
                 args |-> Append(acc.args, err),
                 flags |-> Append(acc.flags, ret[i]),
                 handled_error |-> IF ret[i] THEN TRUE ELSE acc.handled_error,
                 panic |-> FALSE])

\* ExitStack::rollback(err): the Vec back to front.  ret[i] is what the exit
\* of member i returns when invoked.  acc is what has happened so far: the
\* members whose exit ran (in order), the outcome each was given, what each
\* returned, handled_error, and whether get_mut().unwrap() panicked
RECURSIVE rollback_from(_, _, _, _, _)
rollback_from(vec, i, err, ret, acc) ==
    IF i = 0 THEN acc
    ELSE IF ~Rc_get_mut(strong_count(vec[i]))
         THEN [acc EXCEPT !.panic = TRUE]
         ELSE rollback_from(vec, i - 1, err, ret,
                [exits |-> Append(acc.exits, vec[i]),
                 args |-> Append(acc.args, err),
                 flags |-> Append(acc.flags, ret[i]),
                 handled_error |-> IF ret[i] THEN TRUE ELSE acc.handled_error,
                 panic |-> FALSE])

rollback(vec, err, ret) ==
    rollback_from(vec, Len(vec), err, ret,
        [exits |-> <<>>, args |-> <<>>, flags |-> <<>>,
         handled_error |-> FALSE, panic |-> FALSE])

\* ExitStack::close(): rollback(&Ok(())), its result dropped; the Vec is
\* left as it is
close(s, ret) ==
    /\ ~panicked
    /\ s \in alive
    /\ \A i \in 1..Len(stacks[s]) : exitCount[stacks[s][i]] < MaxExits
    /\ LET rb == rollback(stacks[s], Ok, ret) IN
        /\ exitCount' = [r \in Res |-> exitCount[r] + Count(rb.exits, r)]
        /\ panicked' = rb.panic
        /\ last' = [NoOp EXCEPT !.op = "close", !.s = s, !.err = Ok,
                                !.returned = ~rb.panic, !.exits = rb.exits,
                                !.args = rb.args]
    /\ UNCHANGED <<stacks, alive, created, held, enterCount, withVars, ctxVars>>

\* mutant: exit without `self.stack = Vec::new()`
exit_keeps_members(s, err, ret) ==
    /\ ~panicked
    /\ s \in alive
    /\ \A i \in 1..Len(stacks[s]) : exitCount[stacks[s][i]] < MaxExits
    /\ LET rb == rollback(stacks[s], err, ret) IN
        /\ exitCount' = [r \in Res |-> exitCount[r] + Count(rb.exits, r)]
        /\ panicked' = rb.panic
        /\ last' = [NoOp EXCEPT !.op = "exit", !.s = s, !.err = err,
                                !.returned = ~rb.panic,
                                !.retb = (~rb.panic /\ rb.handled_error),
                                !.exits = rb.exits, !.args = rb.args,
                                !.flags = rb.flags]
    /\ UNCHANGED <<stacks, alive, created, held, enterCount, withVars, ctxVars>>

\* <ExitStack as Context>::exit(err): rollback(err), then self.stack = Vec::new()
exit(s, err, ret) ==
    /\ ~panicked
    /\ s \in alive
    /\ \A i \in 1..Len(stacks[s]) : exitCount[stacks[s][i]] < MaxExits
    /\ LET rb == rollback(stacks[s], err, ret) IN
        /\ exitCount' = [r \in Res |-> exitCount[r] + Count(rb.exits, r)]
        /\ panicked' = rb.panic
        /\ stacks' = IF rb.panic THEN stacks ELSE [stacks EXCEPT ![s] = <<>>]
        /\ last' = [NoOp EXCEPT !.op = "exit", !.s = s, !.err = err,
                                !.returned = ~rb.panic,
                                !.retb = (~rb.panic /\ rb.handled_error),
                                !.exits = rb.exits, !.args = rb.args,
                                !.flags = rb.flags]
    /\ UNCHANGED <<alive, created, held, enterCount, withVars, ctxVars>>

\* what the members' exits return: one flag per position of the Vec
ExitReturns(s) == [1..Len(stacks[s]) -> BOOLEAN]

Next ==
    \/ rc_new
    \/ \E r \in Res : rc_clone(r)
    \/ \E r \in Res : rc_drop(r)
    \/ \E s \in StackIds, r \in Res : push(s, r)
    \/ \E s \in StackIds, r \in Res, e \in EnterOutcomes : enter_context(s, r, e)
    \/ \E s \in StackIds, r \in Res : remove(s, r)
    \/ \E s \in StackIds : callback(s)
    \/ \E s \in StackIds : pop_all(s)
    \/ \E s \in StackIds : drop_stack(s)
    \/ \E s \in StackIds : \E ret \in ExitReturns(s) : close(s, ret)
    \/ \E s \in StackIds, err \in StackOutcomes :
          \E ret \in ExitReturns(s) : exit(s, err, ret)

Spec == Init /\ [][Next]_vars

\* ------------------------------------------------- with(context, block)
\* with is generic in the context: its steps fix the variables of with and
\* leave the ExitStacks alone; what enter and exit do to the context's own
\* state is added by the specification that runs with over that context
Event(ev, out, flag) == [ev |-> ev, out |-> out, flag |-> flag]

\* mutant: `let _ = context.enter();`, the failure of enter is dropped
with_enter_unchecked(e) ==
    /\ wpc \in {"idle", "done"}
    /\ wcount.with < MaxWith
    /\ wenter' = e
    /\ wblock' = Ok
    /\ wtrace' = <<Event("enter", e, FALSE)>>
    /\ wcount' = [wcount EXCEPT !.with = @ + 1, !.enter = @ + 1,
                                !.entered = IF e.ok THEN @ + 1 ELSE @]
    /\ wpc' = "entered"
    /\ wret' = Ok
    /\ UNCHANGED stackVars

\* `context.enter()?` returning e: a failure is returned as it is
with_enter(e) ==
    /\ wpc \in {"idle", "done"}
    /\ wcount.with < MaxWith
    /\ wenter' = e
    /\ wblock' = Ok
    /\ wtrace' = <<Event("enter", e, FALSE)>>
    /\ wcount' = [wcount EXCEPT !.with = @ + 1, !.enter = @ + 1,
                                !.entered = IF e.ok THEN @ + 1 ELSE @]
    /\ IF e.ok
       THEN wpc' = "entered" /\ wret' = Ok
       ELSE wpc' = "done" /\ wret' = e
    /\ UNCHANGED stackVars

\* `let result = block(context)`, the block returning o
with_block(o) ==
    /\ wpc = "entered"
    /\ wblock' = o
    /\ wtrace' = Append(wtrace, Event("block", o, FALSE))
    /\ wpc' = "ran"
    /\ UNCHANGED <<wenter, wret, wcount, stackVars>>

\* the block panics: with unwinds, nothing after line 84 runs
with_block_panic ==
    /\ wpc = "entered"
    /\ wtrace' = Append(wtrace, Event("block", Ok, FALSE))
    /\ wpc' = "panicked"
    /\ UNCHANGED <<wenter, wblock, wret, wcount, stackVars>>

\* mutant: `let result = block(context)?;`, a failed block returns at once
with_exit_skipped_on_failure(flag) ==
    /\ wpc = "ran"
    /\ IF wblock.ok
       THEN /\ wtrace' = Append(wtrace, Event("exit", wblock, flag))
            /\ wcount' = [wcount EXCEPT !.exit = @ + 1]
            /\ wret' = IF flag THEN Ok ELSE wblock
       ELSE /\ wret' = wblock
            /\ UNCHANGED <<wtrace, wcount>>
    /\ wpc' = "done"
    /\ UNCHANGED <<wenter, wblock, stackVars>>

\* mutant: `context.exit(&result); result`, what exit returns is dropped
with_exit_flag_ignored(flag) ==
    /\ wpc = "ran"
    /\ wtrace' = Append(wtrace, Event("exit", wblock, flag))
    /\ wcount' = [wcount EXCEPT !.exit = @ + 1]
    /\ wret' = wblock
    /\ wpc' = "done"
    /\ UNCHANGED <<wenter, wblock, stackVars>>

\* `match context.exit(&result) { true => Ok(()), false => result }`,
\* exit returning flag
with_exit(flag) ==
    /\ wpc = "ran"
    /\ wtrace' = Append(wtrace, Event("exit", wblock, flag))
    /\ wcount' = [wcount EXCEPT !.exit = @ + 1]
    /\ wret' = IF flag THEN Ok ELSE wblock
    /\ wpc' = "done"
    /\ UNCHANGED <<wenter, wblock, stackVars>>

\* with over a context without state of its own: enter returns any outcome,
\* exit any flag
NextWith ==
    \/ \E e \in Outcomes : with_enter(e) /\ UNCHANGED ctxVars
    \/ \E o \in Outcomes : with_block(o) /\ UNCHANGED ctxVars
    \/ with_block_panic /\ UNCHANGED ctxVars
    \/ \E flag \in BOOLEAN : with_exit(flag) /\ UNCHANGED ctxVars

SpecWith == Init /\ [][NextWith]_vars

\* ------------------------------------------------------------ IterContext
\* the two files that define the trait
Impls == {"lib", "util"}
\* the values an Iterator<Item=ContextResult> produces
ItemOutcomes == StackOutcomes \cup EnterOutcomes
ItemSeqs == UNION {[1..n -> ItemOutcomes] : n \in 0..MaxItems}

\* Iterator::next() on an iterator that has yet to produce items: the first
\* of them, or None when there is none
Iterator_next(items) ==
    IF items = <<>>
    THEN [some |-> FALSE, item |-> Ok, rest |-> <<>>]
    ELSE [some |-> TRUE, item |-> Head(items), rest |-> Tail(items)]

\* the kind of the failure that enter builds when next() is None
NoneOnEnterKind(impl) == IF impl = "lib" THEN "IterEnterError" ELSE "EnterError"

\* an object implementing IterContext of file impl, over an iterator that
\* will produce items
iter_new(impl, items) ==
    /\ itLast.op = "none"
    /\ itImpl' = impl
    /\ itItems' = items
    /\ itLast' = [ItNone EXCEPT !.op = "new"]
    /\ UNCHANGED <<itPulls, stackVars, withVars, simpleVars, dirVars>>

\* IterContext::enter
iter_enter ==
    /\ itLast.op # "none"
    /\ itLast.returned
    /\ itPulls < MaxPulls
    /\ LET n == Iterator_next(itItems) IN
        /\ itItems' = n.rest
        /\ itPulls' = itPulls + 1
        /\ itLast' = [ItNone EXCEPT
                        !.op = "enter", !.some = n.some,
                        !.result = IF n.some THEN n.item
                                   ELSE Err(NoneOnEnterKind(itImpl),
                                            "None returned on enter")]
    /\ UNCHANGED <<itImpl, stackVars, withVars, simpleVars, dirVars>>

\* mutant: exit takes a further value for the end of the sequence
iter_exit_lenient(err) ==
    /\ itLast.op # "none"
    /\ itLast.returned
    /\ itPulls < MaxPulls
    /\ LET n == Iterator_next(itItems) IN
        /\ itItems' = n.rest
        /\ itPulls' = itPulls + 1
        /\ itLast' = [ItNone EXCEPT
                        !.op = "exit", !.some = n.some, !.err = err,
                        !.returned = TRUE, !.retb = FALSE]
    /\ UNCHANGED <<itImpl, stackVars, withVars, simpleVars, dirVars>>

\* IterContext::exit(err): false on None, a panic on Some(_)
iter_exit(err) ==
    /\ itLast.op # "none"
    /\ itLast.returned
    /\ itPulls < MaxPulls
    /\ LET n == Iterator_next(itItems) IN
        /\ itItems' = n.rest
        /\ itPulls' = itPulls + 1
        /\ itLast' = [ItNone EXCEPT
                        !.op = "exit", !.some = n.some, !.err = err,
                        !.returned = ~n.some, !.retb = FALSE]
    /\ UNCHANGED <<itImpl, stackVars, withVars, simpleVars, dirVars>>

NextIter ==
    \/ \E impl \in Impls, items \in ItemSeqs : iter_new(impl, items)
    \/ iter_enter
    \/ \E err \in StackOutcomes : iter_exit(err)

SpecIter == Init /\ [][NextIter]_vars

\* ------------------------------------------------- test simple (lib.rs)
\* t.val = 42 in Temp::enter
EnteredVal == 42
\* the values a block stores in t.val
BlockVals == 0..MaxVal

\* Temp::enter
Temp_enter(t) == [t |-> [orig |-> t.val, val |-> EnteredVal], result |-> Ok]

\* Temp::exit(err)
Temp_exit(t, err) == [t |-> [t EXCEPT !.val = t.orig], flag |-> FALSE]

\* with(&mut t, block): context.enter()
simple_enter ==
    /\ with_enter(Temp_enter(temp).result)
    /\ temp' = Temp_enter(temp).t
    /\ tseen' = <<>>
    /\ UNCHANGED <<iterVars, dirVars>>

\* the block finds t.val, stores v there or leaves it, and returns o
simple_block(o, v) ==
    /\ with_block(o)
    /\ tseen' = Append(tseen, temp.val)
    /\ temp' = [temp EXCEPT !.val = v]
    /\ UNCHANGED <<iterVars, dirVars>>

\* with: context.exit(&result)
simple_exit ==
    /\ with_exit(Temp_exit(temp, wblock).flag)
    /\ temp' = Temp_exit(temp, wblock).t
    /\ UNCHANGED <<tseen, iterVars, dirVars>>

NextSimple ==
    \/ simple_enter
    \/ \E o \in Outcomes, v \in BlockVals \cup {temp.val} : simple_block(o, v)
    \/ simple_exit

SpecSimple == Init /\ [][NextSimple]_vars

\* ------------------------------------------- SwitchDir (util, droputil)
\* a path that names no directory
NoDir == "none"
\* paths handed to SwitchDir::new: the directories by their absolute path,
\* "sub" relative to the current directory, "gone" absolute and missing
Paths == Dirs \cup {"sub", "gone"}
\* the directory that path p names when the current directory is from
Resolve(from, p) ==
    IF p \in Dirs THEN p
    ELSE IF p = "sub" /\ from = "A" THEN "A/sub"
    ELSE NoDir

\* whether current_dir() and set_current_dir(..) of one operation succeed
\* as far as the operating system is concerned
OsAnswers == [cur : BOOLEAN, set : BOOLEAN]

\* Path::is_dir
is_dir(from, p) == Resolve(from, p) # NoDir

\* std::env::set_current_dir(p)
set_current_dir(from, p, os_ok) ==
    IF os_ok /\ Resolve(from, p) # NoDir
    THEN [ok |-> TRUE, cwd |-> Resolve(from, p)]
    ELSE [ok |-> FALSE, cwd |-> from]

\* util::SwitchDir::new(dir)
SwitchDir_new(from, dir, cur_ok) ==
    IF ~is_dir(from, dir) \/ ~cur_ok
    THEN [ok |-> FALSE, original_dir |-> from, new_dir |-> dir]
    ELSE [ok |-> TRUE, original_dir |-> from, new_dir |-> dir]

\* mutant: enter keeps the original_dir that new stored
SwitchDir_enter_keeps_original(o, from, os) ==
    IF ~os.cur
    THEN [result |-> Err("EnterError", "Could not get current directory"),
          original_dir |-> o.original_dir, cwd |-> from]
    ELSE IF from = o.new_dir
    THEN [result |-> Ok, original_dir |-> o.original_dir, cwd |-> from]
    ELSE LET s == set_current_dir(from, o.new_dir, os.set) IN
         [result |-> IF s.ok THEN Ok
                     ELSE Err("EnterError", "Could not set directory"),
          original_dir |-> o.original_dir, cwd |-> s.cwd]

\* <util::SwitchDir as Context>::enter
SwitchDir_enter(o, from, os) ==
    IF ~os.cur
    THEN [result |-> Err("EnterError", "Could not get current directory"),
          original_dir |-> o.original_dir, cwd |-> from]
    ELSE IF from = o.new_dir
    THEN [result |-> Ok, original_dir |-> from, cwd |-> from]
    ELSE LET s == set_current_dir(from, o.new_dir, os.set) IN
         [result |-> IF s.ok THEN Ok
                     ELSE Err("EnterError", "Could not set directory"),
          original_dir |-> from, cwd |-> s.cwd]

\* <util::SwitchDir as Context>::exit(err)
SwitchDir_exit(o, from, set_ok) ==
    LET s == set_current_dir(from, o.original_dir, set_ok) IN
    [panic |-> ~s.ok, flag |-> FALSE, cwd |-> s.cwd]

\* util::SwitchDir::new(dir): the directory is not changed
util_new(dir, cur_ok) ==
    /\ ~dlast.panicked
    /\ sd.kind = "none"
    /\ sd.made < MaxNew
    /\ wpc \in {"idle", "done"}
    /\ LET n == SwitchDir_new(cwd, dir, cur_ok) IN
        /\ sd' = IF n.ok
                 THEN [SdNone EXCEPT !.kind = "util", !.new_dir = n.new_dir,
                                     !.original_dir = n.original_dir,
                                     !.made = sd.made + 1]
                 ELSE [sd EXCEPT !.made = @ + 1]
        /\ dlast' = [DNone EXCEPT !.op = "new", !.kind = "util", !.ok = n.ok,
                                  !.from = cwd,
                                  !.isdir = is_dir(cwd, dir), !.os = cur_ok]
    /\ dobs' = [dobs EXCEPT !.home = cwd]
    /\ UNCHANGED <<cwd, stackVars, withVars, iterVars, simpleVars>>

\* droputil::SwitchDir::new(dir): util::SwitchDir::new(dir)?, wrapped in a
\* DropContext, and context.enter(); when enter fails the DropContext goes
\* out of scope and its drop calls exit
drop_new(dir, cur_ok, ose, set_ok) ==
    /\ ~dlast.panicked
    /\ sd.kind = "none"
    /\ sd.made < MaxNew
    /\ wpc \in {"idle", "done"}
    /\ dobs' = [dobs EXCEPT !.home = cwd]
    /\ LET n == SwitchDir_new(cwd, dir, cur_ok)
           e == SwitchDir_enter(n, cwd, ose)
           x == SwitchDir_exit([n EXCEPT !.original_dir = e.original_dir],
                               e.cwd, set_ok)
           rec == [DNone EXCEPT !.op = "new", !.kind = "drop",
                                !.isdir = is_dir(cwd, dir), !.from = cwd]
           os_ok == cur_ok /\ ose.cur /\ (cwd = n.new_dir \/ ose.set)
       IN
       IF ~n.ok
       THEN /\ sd' = [sd EXCEPT !.made = @ + 1]
            /\ dlast' = [rec EXCEPT !.ok = FALSE, !.os = cur_ok]
            /\ cwd' = cwd
       ELSE IF e.result.ok
       THEN /\ sd' = [SdNone EXCEPT !.kind = "drop", !.new_dir = n.new_dir,
                                    !.original_dir = e.original_dir,
                                    !.enters = 1, !.made = sd.made + 1]
            /\ dlast' = [rec EXCEPT !.ok = TRUE, !.os = os_ok, !.enters = 1]
            /\ cwd' = e.cwd
       ELSE /\ sd' = [sd EXCEPT !.made = @ + 1]
            /\ dlast' = [rec EXCEPT !.ok = FALSE, !.os = os_ok,
                                    !.panicked = x.panic,
                                    !.enters = 1, !.exits = 1]
            /\ cwd' = x.cwd
    /\ UNCHANGED <<stackVars, withVars, iterVars, simpleVars>>

\* mutant: a DropContext without the Drop implementation
sd_drop_forgets(set_ok) ==
    /\ ~dlast.panicked
    /\ sd.kind # "none"
    /\ wpc \in {"idle", "done"}
    /\ sd' = [SdNone EXCEPT !.made = sd.made]
    /\ dlast' = [DNone EXCEPT !.op = "drop", !.kind = sd.kind, !.from = cwd,
                              !.enters = sd.enters, !.exits = sd.exits]
    /\ UNCHANGED <<cwd, dobs, stackVars, withVars, iterVars, simpleVars>>

\* the SwitchDir object goes out of scope: <DropContext as Drop>::drop calls
\* context.exit(&Ok(())); util::SwitchDir has no Drop
sd_drop(set_ok) ==
    /\ ~dlast.panicked
    /\ sd.kind # "none"
    /\ wpc \in {"idle", "done"}
    /\ sd' = [SdNone EXCEPT !.made = sd.made]
    /\ LET x == SwitchDir_exit(sd, cwd, set_ok)
           rec == [DNone EXCEPT !.op = "drop", !.kind = sd.kind,
                                !.from = cwd,
                                !.enters = sd.enters, !.exits = sd.exits]
       IN
       IF sd.kind = "drop"
       THEN /\ cwd' = x.cwd
            /\ dlast' = [rec EXCEPT !.panicked = x.panic, !.os = set_ok,
                                    !.exits = sd.exits + 1]
       ELSE /\ cwd' = cwd
            /\ dlast' = rec
    /\ UNCHANGED <<dobs, stackVars, withVars, iterVars, simpleVars>>

\* the code in the scope of the object calls set_current_dir(d) itself
chdir(d) ==
    /\ ~dlast.panicked
    /\ wpc \in {"idle", "done"}
    /\ d # cwd
    /\ cwd' = d
    /\ dlast' = [DNone EXCEPT !.op = "chdir", !.from = cwd]
    /\ UNCHANGED <<sd, dobs, stackVars, withVars, iterVars, simpleVars>>

\* with(&mut switchdir, block): context.enter(); droputil::SwitchDir hands
\* the call to its DropContext, which hands it to the util::SwitchDir
dir_with_enter(os) ==
    /\ ~dlast.panicked
    /\ sd.kind # "none"
    /\ LET e == SwitchDir_enter(sd, cwd, os) IN
        /\ with_enter(e.result)
        /\ sd' = [sd EXCEPT !.original_dir = e.original_dir,
                            !.enters = @ + 1]
        /\ cwd' = e.cwd
        /\ dlast' = [DNone EXCEPT !.op = "enter", !.kind = sd.kind,
                                  !.ok = e.result.ok, !.from = cwd,
                                  !.os = (os.cur /\ (cwd = sd.new_dir \/ os.set)),
                                  !.enters = sd.enters + 1,
                                  !.exits = sd.exits]
    /\ dobs' = [dobs EXCEPT !.start = cwd]
    /\ UNCHANGED <<iterVars, simpleVars>>

\* the block finds the current directory, may change it to d, and returns o
dir_with_block(o, d) ==
    /\ ~dlast.panicked
    /\ with_block(o)
    /\ dobs' = [dobs EXCEPT !.seen = cwd]
    /\ cwd' = d
    /\ dlast' = [DNone EXCEPT !.op = "block", !.kind = sd.kind,
                              !.from = cwd,
                              !.enters = sd.enters, !.exits = sd.exits]
    /\ UNCHANGED <<sd, iterVars, simpleVars>>

\* with: context.exit(&result); a panic of exit ends with
dir_with_exit(set_ok) ==
    /\ ~dlast.panicked
    /\ LET x == SwitchDir_exit(sd, cwd, set_ok) IN
        /\ IF x.panic
           THEN /\ wpc = "ran"
                /\ wpc' = "panicked"
                /\ wtrace' = Append(wtrace, Event("exit", wblock, FALSE))
                /\ wcount' = [wcount EXCEPT !.exit = @ + 1]
                /\ UNCHANGED <<wenter, wblock, wret, stackVars>>
           ELSE with_exit(x.flag)
        /\ cwd' = x.cwd
        /\ dlast' = [DNone EXCEPT !.op = "exit", !.kind = sd.kind,
                                  !.panicked = x.panic, !.os = set_ok,
                                  !.from = cwd, !.enters = sd.enters,
                                  !.exits = sd.exits + 1]
    /\ sd' = [sd EXCEPT !.exits = @ + 1]
    /\ UNCHANGED <<dobs, iterVars, simpleVars>>

NextDir ==
    \/ \E dir \in Paths, cur_ok \in BOOLEAN : util_new(dir, cur_ok)
    \/ \E dir \in Paths, cur_ok \in BOOLEAN, ose \in OsAnswers, set_ok \in BOOLEAN :
          drop_new(dir, cur_ok, ose, set_ok)
    \/ \E set_ok \in BOOLEAN : sd_drop(set_ok)
    \/ \E d \in Dirs : chdir(d)
    \/ \E os \in OsAnswers : dir_with_enter(os)
    \/ \E o \in StackOutcomes, d \in Dirs : dir_with_block(o, d)
    \/ \E set_ok \in BOOLEAN : dir_with_exit(set_ok)

SpecDir == Init /\ [][NextDir]_vars

\* =====================================================================
\* Properties
\* =====================================================================
Reverse(seq) == [i \in 1..Len(seq) |-> seq[Len(seq) + 1 - i]]
IsPrefix(p, seq) == Len(p) <= Len(seq) /\ \A i \in 1..Len(p) : p[i] = seq[i]
Members(seq) == {seq[i] : i \in 1..Len(seq)}
NoExitRuns == exitCount' = exitCount
Unwinds == {"close", "exit"}

\* C1: LIFO unwinding of resources registered via enter_context: once
\* enter_context(r) has been called for a resource whose enter succeeds, r is
\* the most recently registered member of the stack, so that unwinding the
\* stack invokes r's exit first and the exits of the earlier members after it.
C1_LifoOfEnterContext ==
    (last.op = "enter_context" /\ last.enter.ok) =>
        LET vec == stacks[last.s] IN
        /\ last.returned
        /\ Len(vec) >= 1
        /\ Reverse(vec)[1] = last.res

\* C2: with(): once enter has succeeded, exit is invoked exactly once, after
\* the block has run and with the block's outcome, whatever the block
\* returned; over repeated runs, every successful enter is matched by one exit.
C2_WithExitsOnce ==
    /\ wpc \in {"idle", "done"} => wcount.exit = wcount.entered
    /\ wpc \in {"entered", "ran"} => wcount.exit = wcount.entered - 1
    /\ (wpc = "done" /\ wenter.ok) =>
          /\ Len(wtrace) = 3
          /\ wtrace[3].ev = "exit"
    /\ \A i \in 1..Len(wtrace) :
          wtrace[i].ev = "exit" =>
              /\ i = 3
              /\ wtrace[1].ev = "enter" /\ wtrace[1].out.ok
              /\ wtrace[2].ev = "block"
              /\ wtrace[3].out = wtrace[2].out
              /\ wtrace[2].out = wblock

C2_Witness ==
    /\ wpc = "done"
    /\ wenter.ok
    /\ ~wblock.ok
    /\ Len(wtrace) = 3
    /\ wtrace[3] = Event("exit", wblock, FALSE)
    /\ wcount.with = 2

\* C3: at-most-once exit in the aggregate: whatever ExitStack operations are
\* made, no registered resource's exit is invoked more than once.
C3_ExitAtMostOnce == \A r \in Res : exitCount[r] <= 1

\* C4: with(): when enter fails, with returns that same failure, and neither
\* the block nor exit is invoked.
C4_WithEnterFailure ==
    /\ ~wenter.ok => wpc = "done"
    /\ (wpc = "done" /\ ~wenter.ok) =>
          /\ wret = wenter
          /\ wtrace = <<Event("enter", wenter, FALSE)>>

C4_Witness ==
    /\ wpc = "done"
    /\ wenter = Err("EnterError", "m2")
    /\ wret = Err("EnterError", "m2")
    /\ wcount.enter = 1
    /\ wcount.exit = 0

C6_SuppressionOr ==
    [][ (last'.op = "exit") =>
          LET vec == stacks[last'.s] IN
          /\ Len(last'.flags) = Len(last'.exits)
          /\ Len(last'.args) = Len(last'.exits)
          /\ \A i \in 1..Len(last'.args) : last'.args[i] = last'.err
          /\ IsPrefix(last'.exits, Reverse(vec))
          /\ \A r \in Res :
                exitCount'[r] = exitCount[r] + Count(last'.exits, r)
          /\ last'.returned =>
                /\ last'.exits = Reverse(vec)
                /\ last'.retb = (\E i \in 1..Len(last'.flags) : last'.flags[i])
          /\ ~last'.returned =>
                /\ Len(last'.exits) < Len(vec)
                /\ strong_count(Reverse(vec)[Len(last'.exits) + 1]) # 1
      ]_vars

C6_Witness ==
    /\ last.op = "exit"
    /\ last.returned
    /\ ~last.err.ok
    /\ last.exits = <<2, 1>>
    /\ last.args = <<last.err, last.err>>
    /\ last.flags = <<TRUE, FALSE>>
    /\ last.retb
    /\ exitCount[1] = 1

\* C7: stack transfer: pop_all invokes no exit, leaves the original stack
\* empty and gives the returned stack exactly the members the original held,
\* in the same order; a close that returns invokes the exits of exactly the
\* members of the stack it is called on (none for an empty stack), back to
\* front.
C7_PopAllTransfers ==
    [][ /\ (last'.op = "pop_all") =>
            /\ NoExitRuns
            /\ stacks'[last'.s] = <<>>
            /\ \E t \in StackIds \ alive :
                  /\ alive' = alive \cup {t}
                  /\ stacks'[t] = stacks[last'.s]
        /\ (last'.op = "close" /\ last'.returned) =>
            /\ last'.exits = Reverse(stacks[last'.s])
            /\ stacks[last'.s] = <<>> => NoExitRuns
            /\ \A r \in Res :
                  exitCount'[r] = exitCount[r] + Count(stacks[last'.s], r)
      ]_vars

C7_Witness ==
    /\ last.op = "pop_all"
    /\ last.s = "stack"
    /\ stacks["stack"] = <<>>
    /\ stacks["newstack"] = <<1, 2>>
    /\ alive = StackIds
    /\ exitCount = [r \in Res |-> 0]

C9_CloseEmpties ==
    (last.op = "close" /\ last.returned) =>
        /\ \A i \in 1..Len(last.args) : last.args[i] = Ok
        /\ stacks[last.s] = <<>>

\* C10: partial-failure policy of enter_context: when the resource's enter
\* fails, enter_context returns that failure, the resource is not added and no
\* exit is invoked.
C10_EnterContextFailure ==
    (last.op = "enter_context" /\ ~last.enter.ok) =>
        /\ last.returned
        /\ last.reto = last.enter
        /\ last.res \notin Members(stacks[last.s])
        /\ last.exits = <<>>

\* C11: enter_context(c), for a resource whose enter succeeds, calls the
\* resource's enter exactly once, appends the resource as the last element of
\* the sequence and returns success; it does not panic, whatever handles to
\* the resource exist.
C11_EnterContextRegisters ==
    (last.op = "enter_context" /\ last.enter.ok) =>
        LET vec == stacks[last.s] IN
        /\ last.returned
        /\ last.reto = Ok
        /\ enterCount[last.res] >= 1
        /\ Len(vec) >= 1
        /\ vec[Len(vec)] = last.res

\* C12: callback(f) appends one new member at the end, without calling enter,
\* and returns a handle to that same member; unless the handle is used to
\* remove it, unwinding the stack invokes f once: here, an unwinding that
\* directly follows callback(f) on the same stack invokes the new member's
\* exit exactly once.
C12_CallbackRunsOnce ==
    [][ /\ (last'.op = "callback") =>
            /\ stacks'[last'.s] = Append(stacks[last'.s], last'.res)
            /\ last'.res \notin Members(stacks[last'.s])
            /\ held'[last'.res] = 1
            /\ enterCount' = enterCount
            /\ NoExitRuns
        /\ (last.op = "callback" /\ last'.op \in Unwinds /\ last'.s = last.s) =>
            /\ last'.returned
            /\ Count(last'.exits, last.res) = 1
            /\ exitCount'[last.res] = exitCount[last.res] + 1
      ]_vars

\* C13: shared ownership during unwinding: close() and exit() invoke every
\* member's exit and return without a panic, also when the caller still holds
\* a handle to a member.
C13_UnwindWithSharedHandles ==
    (last.op \in Unwinds) =>
        /\ last.returned
        /\ (last.op = "close") => last.exits = Reverse(stacks[last.s])

\* C19: ExitStack::exit(outcome) invokes the members' exits, last registered
\* first, each with the given outcome, and leaves the stack empty; an exit or
\* a close that directly follows on the same stack invokes no exit and
\* returns, the exit returning false; whatever is registered later is unwound
\* by the next unwinding like any member.
C19_ExitLeavesEmpty ==
    [][ /\ (last'.op = "exit" /\ last'.returned) =>
            /\ stacks'[last'.s] = <<>>
            /\ last'.exits = Reverse(stacks[last'.s])
            /\ \A i \in 1..Len(last'.args) : last'.args[i] = last'.err
        /\ (last.op = "exit" /\ last.returned
              /\ last'.op \in Unwinds /\ last'.s = last.s) =>
            /\ NoExitRuns
            /\ last'.exits = <<>>
            /\ last'.returned
            /\ ~last'.retb
        /\ (last'.op = "close" /\ last'.returned) =>
            last'.exits = Reverse(stacks[last'.s])
      ]_vars

\* an exit on the stack that a previous unwinding has already run through:
\* nothing is left to unwind and false is returned
C19_Witness ==
    /\ last.op = "exit" /\ last.s = "stack" /\ last.returned
    /\ last.exits = <<>> /\ ~last.retb
    /\ alive = {"stack"} /\ stacks["stack"] = <<>>
    /\ created = 1 /\ exitCount[1] >= 1

\* the sequence of stack s with the element at position i taken out
WithoutIndex(vec, i) == SubSeq(vec, 1, i - 1) \o SubSeq(vec, i + 1, Len(vec))

C14_IterEnter ==
    [][ (itLast'.op = "enter") =>
          /\ itPulls' = itPulls + 1
          /\ itLast'.returned
          /\ IF itItems # <<>>
             THEN /\ itLast'.result = Head(itItems)
                  /\ itItems' = Tail(itItems)
             ELSE /\ ~itLast'.result.ok
                  /\ itLast'.result.kind = "IterEnterError"
      ]_vars

\* C15: exit of a sequence-context calls next() exactly once; when next()
\* produces none, exit returns false, whatever outcome it was given; when
\* next() produces a value, exit panics.
C15_IterExit ==
    [][ (itLast'.op = "exit") =>
          /\ itPulls' = itPulls + 1
          /\ IF itItems = <<>>
             THEN itLast'.returned /\ ~itLast'.retb
             ELSE ~itLast'.returned /\ itItems' = Tail(itItems)
      ]_vars

\* enter took the only value, then exit found a second one and panicked
C15_Witness ==
    /\ itLast.op = "exit" /\ itLast.some /\ ~itLast.returned
    /\ itPulls = 2 /\ itItems = <<>>

\* C17: test simple: with over a Temp runs the block, which finds val = 42;
\* when the block returns a failure of kind Other, with returns success and
\* val is back to what it was before enter, 0.
C17_SimpleTest ==
    (wpc = "done" /\ ~wblock.ok /\ wblock.kind = "Other") =>
        /\ tseen = <<EnteredVal>>
        /\ wret = Ok
        /\ temp.val = Temp_new.val

\* C16: util::SwitchDir through with: the block finds the current directory
\* to be the directory the object was built for, and when with has returned
\* the current directory is again the one with was called in, whether the
\* block returned success or failure.
C16_SwitchDirRoundTrip ==
    (dlast.kind = "util") =>
        /\ (dlast.op = "block") =>
              dobs.seen = Resolve(dobs.start, sd.new_dir)
        /\ (dlast.op \in {"enter", "exit"} /\ wpc = "done") =>
              cwd = dobs.start

\* with called in A on a switch to B, the block failed, with has returned
C16_Witness ==
    /\ dlast.kind = "util" /\ dlast.op = "exit" /\ wpc = "done"
    /\ ~wblock.ok
    /\ dobs.start = "A" /\ dobs.seen = "B" /\ dlast.from = "B"
    /\ cwd = "A"

\* C18: droputil::SwitchDir: new(dir) for an existing directory returns Ok
\* when the system calls succeed, and when it returns Ok the current directory
\* is dir at once; when the object is dropped without enter or exit having
\* been called on it by the caller, the current directory is again the one
\* new was called in.
C18_DropSwitchDirScope ==
    (dlast.kind = "drop") =>
        /\ (dlast.op = "new" /\ dlast.isdir /\ dlast.os) => dlast.ok
        /\ (dlast.op = "new" /\ dlast.ok) =>
              /\ sd.kind = "drop"
              /\ cwd = Resolve(dobs.home, sd.new_dir)
        /\ (dlast.op = "drop" /\ ~dlast.panicked
              /\ dlast.enters = 1 /\ dlast.exits <= 1) =>
              cwd = dobs.home

\* an object built in A for B is dropped while B is current
C18_Witness ==
    /\ dlast.kind = "drop" /\ dlast.op = "drop" /\ ~dlast.panicked
    /\ dlast.enters = 1 /\ dlast.exits = 1
    /\ dobs.home = "A" /\ dlast.from = "B"
    /\ cwd = "A"

\* C21: droputil::SwitchDir through with: for an object built in directory A
\* for another directory B, the block of with finds B to be the current
\* directory, and once with has returned and the object has been dropped the
\* current directory is A again.
C21_DropSwitchDirRoundTrip ==
    (dlast.kind = "drop") =>
        /\ (dlast.op = "block" /\ dlast.enters = 2) =>
              dobs.seen = Resolve(dobs.home, sd.new_dir)
        /\ (dlast.op = "drop" /\ ~dlast.panicked
              /\ dlast.enters = 2 /\ dlast.exits = 2) =>
              cwd = dobs.home

\* C22: over the lifetime of a DropContext the exit of the wrapped context is
\* invoked exactly once: when the object is dropped, after with has called
\* exit on it or not, exit has been invoked once in all.
C22_DropContextExitsOnce ==
    (dlast.kind = "drop" /\ dlast.op = "drop") => dlast.exits = 1

====
